---- MODULE Spec2Model ----
(***************************************************************************)
(* A model of PGLoader.py: the GitHub folder downloader.                   *)
(*                                                                         *)
(* Python strings are sequences of one-character strings, so that prefix   *)
(* tests, stripping, splitting and joining work on characters as the code  *)
(* does.  Paths follow posixpath.  The filesystem is a function from       *)
(* absolute paths (sequences of segment strings) to nodes.                 *)
(***************************************************************************)
EXTENDS Integers, Sequences, FiniteSets, TLC

(***************************************************************************)
(* String helpers (str methods used by the program).                       *)
(***************************************************************************)

\* str.startswith
StartsWith(s, p) ==
    /\ Len(s) >= Len(p)
    /\ SubSeq(s, 1, Len(p)) = p

\* s[n:]
DropFirst(s, n) == SubSeq(s, n + 1, Len(s))

\* str.rstrip(chars)
RECURSIVE RStrip(_, _)
RStrip(s, chars) ==
    IF s /= <<>> /\ s[Len(s)] \in chars
    THEN RStrip(SubSeq(s, 1, Len(s) - 1), chars)
    ELSE s

\* str.lstrip(chars)
RECURSIVE LStrip(_, _)
LStrip(s, chars) ==
    IF s /= <<>> /\ s[1] \in chars
    THEN LStrip(Tail(s), chars)
    ELSE s

\* str.strip(chars)
Strip(s, chars) == LStrip(RStrip(s, chars), chars)

\* index of the first occurrence of a character of chars in s, 0 if none
RECURSIVE FindFirst(_, _, _)
FindFirst(s, chars, i) ==
    IF i > Len(s) THEN 0
    ELSE IF s[i] \in chars THEN i
    ELSE FindFirst(s, chars, i + 1)

\* index of the last occurrence of character c in s, 0 if none (str.rfind + 1)
RECURSIVE FindLast(_, _, _)
FindLast(s, c, i) ==
    IF i = 0 THEN 0
    ELSE IF s[i] = c THEN i
    ELSE FindLast(s, c, i - 1)

\* str.split(sep) for a one-character separator: "" splits to [""]
RECURSIVE Split(_, _)
Split(s, sep) ==
    LET i == FindFirst(s, {sep}, 1) IN
    IF i = 0 THEN <<s>>
    ELSE <<SubSeq(s, 1, i - 1)>> \o Split(DropFirst(s, i), sep)

\* sep.join(parts)
RECURSIVE Join(_, _)
Join(parts, sep) ==
    IF parts = <<>> THEN <<>>
    ELSE IF Len(parts) = 1 THEN parts[1]
    ELSE parts[1] \o <<sep>> \o Join(Tail(parts), sep)

\* Mutant: the slice taken one element late
ListFromNext(l, n) == SubSeq(l, n + 2, Len(l))

\* list[n:]
ListFrom(l, n) == SubSeq(l, n + 1, Len(l))

(***************************************************************************)
(* Characters.                                                             *)
(***************************************************************************)
Letters == {"a", "b", "c", "d", "e", "g", "h", "i", "l", "m", "n", "o", "p",
            "r", "s", "t", "u", "v", "x", "z", "R"}
Digits == {"0", "1", "2", "3", "4", "5", "6", "7", "8", "9"}
\* \w of the regular expression
WordChars == Letters \cup Digits \cup {"_"}

None == "None"

(***************************************************************************)
(* parse_github_folder_url                                                 *)
(***************************************************************************)
S_http == <<"h","t","t","p">>
S_hostpart == <<":","/","/","g","i","t","h","u","b",".","c","o","m","/">>
S_tree == <<"t","r","e","e">>
S_blob == <<"b","l","o","b">>
S_main == <<"m","a","i","n">>

\* length of the longest prefix of s made of characters of chars
RECURSIVE RunLen(_, _)
RunLen(s, chars) ==
    IF s /= <<>> /\ s[1] \in chars THEN 1 + RunLen(Tail(s), chars) ELSE 0

\* re.match(r"https?://github\.com/[\w-]+/[\w.-]+", url): a match at the start
MatchesGitHub(url) ==
    /\ StartsWith(url, S_http)
    /\ LET r1 == DropFirst(url, Len(S_http))
           r2 == IF r1 /= <<>> /\ r1[1] = "s" THEN Tail(r1) ELSE r1
       IN  /\ StartsWith(r2, S_hostpart)
           /\ LET r3 == DropFirst(r2, Len(S_hostpart))
                  n  == RunLen(r3, WordChars \cup {"-"})
                  r4 == DropFirst(r3, n)
              IN  /\ n >= 1
                  /\ r4 /= <<>>
                  /\ r4[1] = "/"
                  /\ RunLen(Tail(r4), WordChars \cup {".", "-"}) >= 1

\* urlparse(url).path for a url with a scheme and a host: what follows the
\* host, up to a query or a fragment
UrlPath(url) ==
    LET i    == FindFirst(url, {":"}, 1)
        rest == DropFirst(url, i + 2)
        j    == FindFirst(rest, {"/", "?", "#"}, 1)
        tl   == IF j = 0 THEN <<>> ELSE DropFirst(rest, j - 1)
        k    == FindFirst(tl, {"?", "#"}, 1)
    IN  IF k = 0 THEN tl ELSE SubSeq(tl, 1, k - 1)

\* The result of parse_github_folder_url: the coordinates, or the ValueError
parse_github_folder_url(url0) ==
    LET url        == RStrip(url0, {"/"})
        path_parts == Split(Strip(UrlPath(url), {"/"}), "/")
    IN  IF ~MatchesGitHub(url) THEN [ok |-> FALSE]
        ELSE IF Len(path_parts) < 2 THEN [ok |-> FALSE]
        ELSE LET sel == Len(path_parts) > 2 /\ path_parts[3] \in {S_tree, S_blob}
             IN [ok          |-> TRUE,
                 owner       |-> path_parts[1],
                 repo        |-> path_parts[2],
                 branch      |-> IF sel /\ Len(path_parts) > 3
                                 THEN path_parts[4] ELSE S_main,
                 folder_path |-> IF sel /\ Len(path_parts) > 4
                                 THEN Join(ListFrom(path_parts, 4), "/")
                                 ELSE <<>>]

(***************************************************************************)
(* posixpath                                                               *)
(***************************************************************************)

\* os.path.join(a, b)
PathJoin(a, b) ==
    IF b /= <<>> /\ b[1] = "/" THEN b
    ELSE IF a = <<>> \/ a[Len(a)] = "/" THEN a \o b
    ELSE a \o <<"/">> \o b

\* os.path.basename(p)
Basename(p) == DropFirst(p, FindLast(p, "/", Len(p)))

\* os.path.dirname(p)
Dirname(p) ==
    LET head == SubSeq(p, 1, FindLast(p, "/", Len(p)))
    IN  IF head /= <<>> /\ RStrip(head, {"/"}) /= <<>>
        THEN RStrip(head, {"/"}) ELSE head

\* sanitize_path
sanitize_path(path) == RStrip(path, {"/", "\\"})

(***************************************************************************)
(* The filesystem: a function from absolute paths (sequences of segments,  *)
(* each segment a string) to nodes.  The process runs in directory Cwd.    *)
(***************************************************************************)
Root == <<>>
Cwd == << <<"w">> >>

DirNode == [kind |-> "dir", data |-> ""]
FileNode(d) == [kind |-> "file", data |-> d]

Parent(p) == IF p = <<>> THEN <<>> ELSE SubSeq(p, 1, Len(p) - 1)

\* p is q or an ancestor of q
IsPrefix(p, q) == Len(p) <= Len(q) /\ SubSeq(q, 1, Len(p)) = p

Restrict(f, S) == [p \in S |-> f[p]]

FsExists(f, p) == p \in DOMAIN f
FsIsDir(f, p) == p \in DOMAIN f /\ f[p].kind = "dir"
FsMkdir(f, p) == (p :> DirNode) @@ f
FsWrite(f, p, d) == (p :> FileNode(d)) @@ f

\* the paths of the subtree rooted at p
Subtree(f, p) == {q \in DOMAIN f : IsPrefix(p, q)}

\* the subtree rooted at p, by the paths relative to p
RelTree(f, p) == {<<SubSeq(q, Len(p) + 1, Len(q)), f[q]>> : q \in Subtree(f, p)}

\* a complete recursive removal of p
FsRemoveTree(f, p) == Restrict(f, DOMAIN f \ Subtree(f, p))

\* the subtree at src re-rooted at dst (os.rename of a file or a directory)
FsRename(f, src, dst) ==
    LET moved == {q \in DOMAIN f : IsPrefix(src, q)}
        rest  == DOMAIN f \ moved
        to(q) == dst \o SubSeq(q, Len(src) + 1, Len(q))
    IN  [p \in rest \cup {to(q) : q \in moved} |->
            IF \E q \in moved : to(q) = p
            THEN f[CHOOSE q \in moved : to(q) = p]
            ELSE f[p]]

\* os.listdir(p): the names of the entries directly under p
FsList(f, p) == {q[Len(q)] : q \in {r \in DOMAIN f : Len(r) = Len(p) + 1 /\ IsPrefix(p, r)}}

\* the segments of a path string and where its resolution starts
PathSegs(str) == Split(str, "/")
PathBase(str) == IF str /= <<>> /\ str[1] = "/" THEN Root ELSE Cwd

\* the absolute path a path string names: "" and "." segments are skipped,
\* ".." goes to the parent
RECURSIVE ResolveFrom(_, _)
ResolveFrom(at, segs) ==
    IF segs = <<>> THEN at
    ELSE IF Head(segs) \in {<<>>, <<".">>} THEN ResolveFrom(at, Tail(segs))
    ELSE IF Head(segs) = <<".", ".">> THEN ResolveFrom(Parent(at), Tail(segs))
    ELSE ResolveFrom(Append(at, Head(segs)), Tail(segs))

Resolve(str) == ResolveFrom(PathBase(str), PathSegs(str))

\* os.makedirs(name, exist_ok=True): every missing directory along the path
\* is created; it fails where a component is a file
RECURSIVE MkdirWalk(_, _, _)
MkdirWalk(f, at, segs) ==
    IF segs = <<>> THEN [ok |-> TRUE, fs |-> f]
    ELSE IF Head(segs) \in {<<>>, <<".">>} THEN MkdirWalk(f, at, Tail(segs))
    ELSE IF Head(segs) = <<".", ".">> THEN MkdirWalk(f, Parent(at), Tail(segs))
    ELSE LET c == Append(at, Head(segs)) IN
         IF c \in DOMAIN f
         THEN IF f[c].kind = "dir" THEN MkdirWalk(f, c, Tail(segs))
              ELSE [ok |-> FALSE, fs |-> f]
         ELSE MkdirWalk(FsMkdir(f, c), c, Tail(segs))

makedirs(f, name) ==
    IF name = <<>> THEN [ok |-> FALSE, fs |-> f]
    ELSE MkdirWalk(f, PathBase(name), PathSegs(name))

\* the outcomes of shutil.rmtree(p, ignore_errors=True): all of the subtree is
\* removed, or the removal of one entry q fails and is passed over, and q
\* stays with the directories from p down to it
RmtreeOutcomes(f, p) ==
    {FsRemoveTree(f, p)} \cup
    {Restrict(f, (DOMAIN f \ Subtree(f, p)) \cup {r \in Subtree(f, p) : IsPrefix(r, q)}) :
        q \in Subtree(f, p)}

(***************************************************************************)
(* Inputs and bounds.                                                      *)
(***************************************************************************)
\* the values int(time.time()) takes are 1..MaxClock
MaxClock == 1
\* the retry counts the Fetcher is called with on its own are 0..MaxRetries
MaxRetries == 3

\* download_with_progress(url, timeout=30, retries=3, backoff_factor=1.5)
DefaultRetries == 3
DefaultBackoffNum == 3
DefaultBackoffDen == 2
DefaultBackoff == [num |-> DefaultBackoffNum, den |-> DefaultBackoffDen]

S_github == S_http \o <<"s">> \o S_hostpart
S_codeload == <<"h","t","t","p","s",":","/","/","c","o","d","e","l","o","a","d",".","g","i","t","h","u","b",".","c","o","m","/">>
S_zip_refs_heads == <<"/","z","i","p","/","r","e","f","s","/","h","e","a","d","s","/">>
S_archive == <<"/","a","r","c","h","i","v","e","/">>
S_dot_zip == <<".","z","i","p">>
S_temp_extract == <<"t","e","m","p","_","e","x","t","r","a","c","t","_">>

\* str(n) for a natural number
DigitOf(n) == CHOOSE c \in Digits :
    c = <<"0", "1", "2", "3", "4", "5", "6", "7", "8", "9">>[n + 1]
RECURSIVE IntStr(_)
IntStr(n) == IF n < 10 THEN <<DigitOf(n)>>
             ELSE IntStr(n \div 10) \o <<DigitOf(n % 10)>>

\* The locators given to download_github_folder
Url_tree == S_github \o <<"o","/","r","/","t","r","e","e","/","v","/","s">>
Url_repo == S_github \o <<"o","/","r">>
Url_bad  == <<"h","t","t","p","s",":","/","/","g","i","t","l","a","b",".","c","o","m","/","o","/","r">>
Locators == {Url_tree, Url_repo, Url_bad}

\* An archive member: its name in the archive and its bytes
Member(n, d) == [name |-> n, data |-> d]
M_root     == Member(<<"r","-","v","/">>, "")
M_readme   == Member(<<"r","-","v","/","R">>, "readme")
M_marker   == Member(<<"r","-","v","/","s","/">>, "")
M_a        == Member(<<"r","-","v","/","s","/","a">>, "new_a")
M_d        == Member(<<"r","-","v","/","s","/","d","/">>, "")
M_db       == Member(<<"r","-","v","/","s","/","d","/","b">>, "new_b")
M_c        == Member(<<"r","-","v","/","s","/","c">>, "new_c")
M_sibling  == Member(<<"r","-","v","/","s","x","/","c">>, "new_x")
M_dotdot   == Member(<<"r","-","v","/","s","/",".",".","/","e">>, "new_e")
M_abs      == Member(<<"r","-","v","/","s","/","/","e">>, "new_e")
M_clobber  == Member(<<"r","-","v","/","s","/",".",".","/","s","/","k">>, "new_k")
M_main_a   == Member(<<"r","-","m","a","i","n","/","a">>, "new_a")

\* What a GET may deliver: the member list of a zip archive, or bytes that are
\* no zip archive
Zip(namelist) == [zip |-> TRUE, namelist |-> namelist]
NotAZip == [zip |-> FALSE, namelist |-> <<>>]
Archives == { <<M_root, M_readme, M_marker, M_a, M_db, M_sibling>>,
              <<M_root, M_d, M_db, M_a>>,
              <<M_marker, M_a>>,
              <<M_dotdot, M_abs, M_a, M_clobber>>,
              <<M_root, M_readme>>,
              <<M_main_a>> }
Payloads == {Zip(a) : a \in Archives} \cup {NotAZip}

\* The filesystems a run may start from: the working directory alone, or with
\* a destination directory holding a file a, a directory d with a file b,
\* and a file k
FsBare == (Root :> DirNode) @@ (Cwd :> DirNode)
FsWithDest(n) ==
    LET d == Append(Cwd, n) IN
    (d :> DirNode) @@ (Append(d, <<"a">>) :> FileNode("old_a"))
      @@ (Append(d, <<"d">>) :> DirNode)
      @@ (Append(Append(d, <<"d">>), <<"b">>) :> FileNode("old_b"))
      @@ (Append(d, <<"k">>) :> FileNode("old_k"))
      @@ FsBare
InitialFilesystems == {FsBare, FsWithDest(<<"s">>)}

\* a destination whose entries are of the other kind than the archive's: a
\* directory a with a file c, and a file d
FsWithDestOfOtherKinds(n) ==
    LET d == Append(Cwd, n) IN
    (d :> DirNode) @@ (Append(d, <<"a">>) :> DirNode)
      @@ (Append(Append(d, <<"a">>), <<"c">>) :> FileNode("old_c"))
      @@ (Append(d, <<"d">>) :> FileNode("old_d"))
      @@ FsBare

\* the orderings of a finite set (os.listdir returns the names in any order)
Perms(S) == {s \in [1..Cardinality(S) -> S] :
                \A i, j \in 1..Cardinality(S) : i /= j => s[i] /= s[j]}

(***************************************************************************)
(* State.                                                                  *)
(***************************************************************************)
VARIABLES
    pc,             \* the position of the run
    url,            \* download_github_folder's url
    coords,         \* owner, repo, branch, folder_path
    output_dir,     \* download_github_folder's output_dir
    dl_pc,          \* download_with_progress: idle, get, sleep, returned, raised
    dl_url,         \* download_with_progress's url
    retries,        \* download_with_progress's retries
    backoff_factor, \* download_with_progress's backoff_factor, a fraction
    current_retry,  \* download_with_progress's current_retry
    dl_exc,         \* the exception download_with_progress raised
    content,        \* what download_with_progress returned
    log,            \* the GETs and sleeps of the call in progress, in order
    calls,          \* the calls of download_with_progress that have ended
    folder_prefix,  \* download_github_folder's folder_prefix
    target_files,   \* download_github_folder's target_files
    temp_dir,       \* extract_to_temp_and_move's temp_dir
    idx,            \* the position of the current loop in its list
    items,          \* extract_to_temp_and_move's items
    exc,            \* the exception propagating out of extract_to_temp_and_move
    result,         \* what download_github_folder returned
    fs,             \* the filesystem
    fs0,            \* the filesystem when the run started
    other,          \* a second invocation of extract_to_temp_and_move
    hist            \* what the steps so far did

vars == <<pc, url, coords, output_dir, dl_pc, dl_url, retries, backoff_factor,
          current_retry, dl_exc, content, log, calls, folder_prefix, target_files,
          temp_dir, idx, items, exc, result, fs, fs0, other, hist>>

dl_vars == <<dl_pc, dl_url, retries, backoff_factor, current_retry, dl_exc,
             content, log, calls>>
mat_vars == <<folder_prefix, target_files, temp_dir, idx, items, exc>>

\* hist records, for the properties: the positions in target_files of the
\* members written in full, the items whose move raised nothing, the items
\* whose destination entry the removal was run on, the top-level entries of
\* staging (name and subtree) when they were listed, what the finally clause
\* did, the steps in which the operating system refused an operation, the
\* step in which the interrupt of the user arrived, which run of the pipeline
\* against the destination this is, and the destination the run before left
Hist0 == [extracted |-> {}, moved |-> {}, removed |-> {}, staged |-> {},
          cleanup |-> "none", faults |-> {}, interrupt |-> "none",
          run |-> 1, first |-> {}]

\* hist with a refused operation of step s recorded for outcome o
Faulted(h, s, o) ==
    IF o = "KeyboardInterrupt" THEN [h EXCEPT !.interrupt = s]
    ELSE IF o = "ok" THEN h
    ELSE [h EXCEPT !.faults = @ \cup {s}]

\* no second invocation
OtherOff == [pc |-> "off", output_dir |-> <<>>, temp_dir |-> <<>>, items |-> <<>>]

Init ==
    /\ pc = "parse"
    /\ url \in Locators
    /\ coords = [ok |-> FALSE]
    /\ output_dir = <<>>
    /\ dl_pc = "idle"
    /\ dl_url = <<>>
    /\ retries = DefaultRetries
    /\ backoff_factor = DefaultBackoff
    /\ current_retry = 0
    /\ dl_exc = None
    /\ content = NotAZip
    /\ log = <<>>
    /\ calls = <<>>
    /\ folder_prefix = <<>>
    /\ target_files = <<>>
    /\ temp_dir = <<>>
    /\ idx = 0
    /\ items = <<>>
    /\ exc = None
    /\ result = None
    /\ fs \in InitialFilesystems
    /\ fs0 = fs
    /\ other = OtherOff
    /\ hist = Hist0

(***************************************************************************)
(* download_with_progress                                                  *)
(***************************************************************************)
RECURSIVE Pow(_, _)
Pow(b, k) == IF k = 0 THEN 1 ELSE b * Pow(b, k - 1)

\* Mutant: a backoff that grows linearly, backoff_factor * current_retry
WaitTimeLinear(b, k) == [num |-> b.num * k, den |-> b.den]

\* wait_time = backoff_factor ** current_retry, as a fraction
WaitTime(b, k) == [num |-> Pow(b.num, k), den |-> Pow(b.den, k)]

\* the while condition of the retry loop
MayAttempt(cr, r) == cr <= r

\* Mutant: the last retry is not made (current_retry < retries)
MayRetryOneLess(cr, r) == cr < r

\* after a caught failure: whether the loop sleeps and tries again
MayRetry(cr, r) == cr <= r

\* the exceptions the retry loop catches: RequestException and socket.timeout,
\* both the failures of the request
Retried == {"RequestException"}

\* What one GET attempt may end in: the body read to its end, a failure of
\* the request (connect error, timeout, non-2xx status, a broken stream), an
\* exception of another class (a content-length header that is no number),
\* or the interrupt of the user
GetOutcomes == {"ok", "RequestException", "Exception", "KeyboardInterrupt"}

\* the entries of log: a GET of a url with what it ended in and delivered, or
\* a sleep of a duration
LogGet(u, o, p) == [ev |-> "get", url |-> u, outcome |-> o, payload |-> p,
                    wait |-> [num |-> 0, den |-> 1]]
LogSleep(w) == [ev |-> "sleep", url |-> <<>>, outcome |-> "", payload |-> NotAZip,
                wait |-> w]

\* an entry of calls: the url and the retry count of the call, and how it
\* ended
CallEnded(u, r, how, e) ==
    [url |-> u, retries |-> r, how |-> how, exc |-> IF how = "raised" THEN e ELSE None]

Fetching == pc \in {"fetch1", "fetch2", "fetcher"}

\* One pass of the loop body up to its return, its raise or its sleep
Get ==
    /\ Fetching
    /\ dl_pc = "get"
    /\ MayAttempt(current_retry, retries)
    /\ \E o \in GetOutcomes :
        \/ /\ o = "ok"
           /\ \E p \in Payloads :
                /\ content' = p
                /\ log' = Append(log, LogGet(dl_url, o, p))
           /\ dl_pc' = "returned"
           /\ UNCHANGED <<current_retry, dl_exc>>
        \/ /\ o \in Retried
           /\ log' = Append(log, LogGet(dl_url, o, NotAZip))
           /\ current_retry' = current_retry + 1
           /\ IF MayRetry(current_retry', retries)
              THEN dl_pc' = "sleep" /\ dl_exc' = dl_exc
              ELSE dl_pc' = "raised" /\ dl_exc' = o
           /\ UNCHANGED content
        \/ /\ o \notin Retried
           /\ o /= "ok"
           /\ log' = Append(log, LogGet(dl_url, o, NotAZip))
           /\ dl_pc' = "raised"
           /\ dl_exc' = o
           /\ UNCHANGED <<current_retry, content>>
    /\ calls' = IF dl_pc' \in {"returned", "raised"}
                THEN Append(calls, CallEnded(dl_url, retries, dl_pc', dl_exc'))
                ELSE calls
    /\ UNCHANGED <<pc, url, coords, output_dir, dl_url, retries, backoff_factor,
                   result, fs, fs0, other, hist>>
    /\ UNCHANGED mat_vars

\* time.sleep(wait_time), which the interrupt of the user may end
Sleep ==
    /\ Fetching
    /\ dl_pc = "sleep"
    /\ \/ /\ log' = Append(log, LogSleep(WaitTime(backoff_factor, current_retry)))
          /\ dl_pc' = "get"
          /\ UNCHANGED <<dl_exc, calls>>
       \/ /\ dl_pc' = "raised"
          /\ dl_exc' = "KeyboardInterrupt"
          /\ calls' = Append(calls, CallEnded(dl_url, retries, dl_pc', dl_exc'))
          /\ UNCHANGED log
    /\ UNCHANGED <<pc, url, coords, output_dir, dl_url, retries, backoff_factor,
                   current_retry, content, result, fs, fs0, other, hist>>
    /\ UNCHANGED mat_vars

(***************************************************************************)
(* download_github_folder, up to the call of extract_to_temp_and_move      *)
(***************************************************************************)
PrimaryUrl(c) ==
    S_codeload \o c.owner \o <<"/">> \o c.repo \o S_zip_refs_heads \o c.branch
SecondaryUrl(c) ==
    S_github \o c.owner \o <<"/">> \o c.repo \o S_archive \o c.branch \o S_dot_zip

\* the default of output_dir
DefaultOutput(c) ==
    IF c.folder_path /= <<>> THEN Basename(c.folder_path) ELSE c.repo

\* Mutant: an except clause for the failures of the request alone
IsRequestException(e) == e = "RequestException"

\* the exceptions "except Exception" catches
IsException(e) == e \in {"Exception", "RequestException"}

\* Mutant: the fallback only after a failure of the request
FallbackOnlyRequestException(e) == e = "RequestException"

\* the exceptions the fallback to the secondary URL catches
FallbackCatches(e) == IsException(e)

\* the retry count the secondary call is made with
SecondaryRetries == DefaultRetries

\* Mutant: an except clause that reports success
LeaveReturningTrue(e) ==
    /\ pc' = "done"
    /\ result' = "True"

\* leaving download_github_folder: by the except clause (False), or with the
\* exception it does not catch
Leave(e) ==
    /\ pc' = "done"
    /\ result' = IF IsException(e) THEN "False" ELSE e

Parse ==
    /\ pc = "parse"
    /\ LET c == parse_github_folder_url(url) IN
       IF ~c.ok
       THEN /\ Leave("Exception")
            /\ UNCHANGED <<coords, output_dir, dl_pc, dl_url, current_retry>>
       ELSE /\ coords' = c
            /\ output_dir' = sanitize_path(DefaultOutput(c))
            /\ dl_url' = PrimaryUrl(c)
            /\ current_retry' = 0
            /\ dl_pc' = "get"
            /\ pc' = "fetch1"
            /\ UNCHANGED result
    /\ UNCHANGED <<url, retries, backoff_factor, dl_exc, content, log, calls, fs,
                   fs0, other, hist>>
    /\ UNCHANGED mat_vars

\* the primary call raised: the fallback, or the exception leaves
PrimaryRaised ==
    /\ pc = "fetch1"
    /\ dl_pc = "raised"
    /\ IF FallbackCatches(dl_exc)
       THEN /\ dl_url' = SecondaryUrl(coords)
            /\ retries' = SecondaryRetries
            /\ current_retry' = 0
            /\ dl_pc' = "get"
            /\ log' = <<>>
            /\ pc' = "fetch2"
            /\ UNCHANGED result
       ELSE /\ Leave(dl_exc)
            /\ UNCHANGED <<dl_url, retries, current_retry, dl_pc, log>>
    /\ UNCHANGED <<url, coords, output_dir, backoff_factor, dl_exc, content, calls,
                   fs, fs0, other, hist>>
    /\ UNCHANGED mat_vars

\* the secondary call raised
SecondaryRaised ==
    /\ pc = "fetch2"
    /\ dl_pc = "raised"
    /\ Leave(dl_exc)
    /\ UNCHANGED <<url, coords, output_dir, fs, fs0, other, hist>>
    /\ UNCHANGED dl_vars
    /\ UNCHANGED mat_vars

\* repo_dir_prefix and folder_prefix
FolderPrefix(c) ==
    LET repo_dir_prefix == c.repo \o <<"-">> \o c.branch \o <<"/">> IN
    IF c.folder_path /= <<>>
    THEN repo_dir_prefix \o c.folder_path \o <<"/">>
    ELSE repo_dir_prefix

\* Mutant: the prefix compared without its closing separator
SelectedWithoutSeparator(name, prefix) ==
    StartsWith(name, RStrip(prefix, {"/"})) /\ name /= prefix

\* whether the Archive Filter keeps a member name
Selected(name, prefix) == StartsWith(name, prefix) /\ name /= prefix

\* target_files: the members of namelist the filter keeps, in its order
RECURSIVE TargetFiles(_, _)
TargetFiles(namelist, prefix) ==
    IF namelist = <<>> THEN <<>>
    ELSE (IF Selected(Head(namelist).name, prefix) THEN <<Head(namelist)>> ELSE <<>>)
         \o TargetFiles(Tail(namelist), prefix)

\* temp_dir
TempDir(out, t) == PathJoin(Dirname(out), S_temp_extract \o IntStr(t))

\* a call returned zip_content (its frame, with the locals and the record of
\* its GETs and sleeps, is gone): the archive is opened and filtered, and
\* extract_to_temp_and_move is entered
OpenAndFilter ==
    /\ pc \in {"fetch1", "fetch2"}
    /\ dl_pc = "returned"
    /\ IF ~content.zip
       THEN /\ Leave("Exception")
            /\ UNCHANGED <<folder_prefix, target_files, temp_dir>>
       ELSE LET tf == TargetFiles(content.namelist, FolderPrefix(coords)) IN
            /\ folder_prefix' = FolderPrefix(coords)
            /\ target_files' = tf
            /\ IF tf = <<>>
               THEN /\ Leave("Exception")
                    /\ UNCHANGED temp_dir
               ELSE /\ \E t \in 1..MaxClock : temp_dir' = TempDir(output_dir, t)
                    /\ pc' = "mk_temp"
                    /\ UNCHANGED result
    /\ dl_pc' = "idle"
    /\ current_retry' = 0
    /\ log' = <<>>
    /\ UNCHANGED <<url, coords, output_dir, idx, items, exc, fs, fs0, other, hist>>
    /\ UNCHANGED <<dl_url, retries, backoff_factor, dl_exc, content, calls>>

(***************************************************************************)
(* extract_to_temp_and_move                                                *)
(***************************************************************************)
\* What a step of extract_to_temp_and_move that touches the filesystem may
\* end in: it runs to its end, the operating system refuses it (OSError), or
\* the interrupt of the user arrives
StepOutcomes == {"ok", "OSError", "KeyboardInterrupt"}

\* Outcomes of one member's extraction: "ok" (no I/O failure), "OSError" (the
\* directories cannot be made), "BadZipFile" (the target is opened and the
\* member's bytes cannot be read), or the interrupt of the user
ExtractOutcomes == {"ok", "OSError", "BadZipFile", "KeyboardInterrupt"}

\* the path string a member is extracted to
TargetFilePath(tdir, prefix, m) ==
    PathJoin(tdir, sanitize_path(DropFirst(m.name, Len(prefix))))

\* The body of the extraction loop for member m with no interrupt: the
\* filesystem after it and whether the member's bytes were written
ExtractMember(f, tdir, prefix, m, o) ==
    LET rel_path         == DropFirst(m.name, Len(prefix))
        target_file_path == TargetFilePath(tdir, prefix, m)
        mk               == makedirs(f, Dirname(target_file_path))
        tp               == Resolve(target_file_path)
    IN  IF rel_path = <<>> THEN [fs |-> f, ok |-> FALSE]
        ELSE IF o = "OSError" THEN [fs |-> f, ok |-> FALSE]
        ELSE IF ~mk.ok \/ FsIsDir(mk.fs, tp) THEN [fs |-> mk.fs, ok |-> FALSE]
        ELSE IF o = "BadZipFile" THEN [fs |-> FsWrite(mk.fs, tp, ""), ok |-> FALSE]
        ELSE [fs |-> FsWrite(mk.fs, tp, m.data), ok |-> TRUE]

\* shutil.move(src, dst) with no I/O failure: an error if src is not there,
\* into dst when dst is a directory (an error if the name is taken there),
\* else a rename
ShutilMove(f, src, dst) ==
    LET real_dst == IF FsIsDir(f, dst) THEN Append(dst, src[Len(src)]) ELSE dst IN
    IF ~FsExists(f, src) THEN [fs |-> f, ok |-> FALSE]
    ELSE IF FsExists(f, real_dst) /\ (FsIsDir(f, dst) \/ FsIsDir(f, src))
    THEN [fs |-> f, ok |-> FALSE]
    ELSE [fs |-> FsRename(FsRemoveTree(f, real_dst), src, real_dst), ok |-> TRUE]

\* control reaches the finally clause with exception e pending
ToFinally(e) ==
    /\ exc' = e
    /\ pc' = "cleanup"

\* the exception an outcome raises
Raised(o) == IF o = "KeyboardInterrupt" THEN o ELSE "Exception"

\* os.makedirs(temp_dir, exist_ok=True)
MakeTemp ==
    /\ pc = "mk_temp"
    /\ \E o \in StepOutcomes :
        /\ LET mk == makedirs(fs, temp_dir) IN
           IF o = "ok" /\ mk.ok
           THEN /\ fs' = mk.fs
                /\ pc' = "extract"
                /\ idx' = 1
                /\ UNCHANGED exc
           ELSE /\ fs' = IF o = "ok" THEN mk.fs ELSE fs
                /\ ToFinally(Raised(o))
                /\ UNCHANGED idx
        /\ hist' = Faulted(hist, "mk_temp", o)
    /\ UNCHANGED <<url, coords, output_dir, folder_prefix, target_files, temp_dir,
                   items, result, fs0, other>>
    /\ UNCHANGED dl_vars

\* Mutant: an extraction loop with no try around its body
ExtractCatchesNothing(o) == o = "ok"

\* whether the extraction loop catches the exception an outcome raises
ExtractCatches(o) == o /= "KeyboardInterrupt"

\* one iteration of the extraction loop
Extract ==
    /\ pc = "extract"
    /\ idx <= Len(target_files)
    /\ \E o \in ExtractOutcomes :
        IF ExtractCatches(o)
        THEN LET r == ExtractMember(fs, temp_dir, folder_prefix, target_files[idx], o) IN
             /\ fs' = r.fs
             /\ hist' = IF r.ok
                        THEN [hist EXCEPT !.extracted = @ \cup {idx}]
                        ELSE Faulted(hist, "extract", o)
             /\ idx' = idx + 1
             /\ pc' = IF idx = Len(target_files) THEN "mk_out" ELSE "extract"
             /\ UNCHANGED exc
        ELSE /\ ToFinally(Raised(o))
             /\ hist' = Faulted(hist, "extract", o)
             /\ UNCHANGED <<fs, idx>>
    /\ UNCHANGED <<url, coords, output_dir, folder_prefix, target_files, temp_dir,
                   items, result, fs0, other>>
    /\ UNCHANGED dl_vars

\* os.makedirs(output_dir, exist_ok=True) and items = os.listdir(temp_dir)
MakeOutput ==
    /\ pc = "mk_out"
    /\ \E o \in StepOutcomes :
        LET mk == makedirs(fs, output_dir) IN
        IF o = "ok" /\ mk.ok /\ FsIsDir(mk.fs, Resolve(temp_dir))
        THEN /\ fs' = mk.fs
             /\ items' \in Perms(FsList(mk.fs, Resolve(temp_dir)))
             /\ hist' = [hist EXCEPT !.staged =
                           {<<n, RelTree(mk.fs, Append(Resolve(temp_dir), n))>> :
                              n \in FsList(mk.fs, Resolve(temp_dir))}]
             /\ idx' = 1
             /\ pc' = IF items' = <<>> THEN "cleanup" ELSE "remove"
             /\ UNCHANGED exc
        ELSE /\ fs' = IF o = "ok" THEN mk.fs ELSE fs
             /\ ToFinally(Raised(o))
             /\ hist' = Faulted(hist, "mk_out", o)
             /\ UNCHANGED <<items, idx>>
    /\ UNCHANGED <<url, coords, output_dir, folder_prefix, target_files, temp_dir,
                   result, fs0, other>>
    /\ UNCHANGED dl_vars

SrcPath == Resolve(PathJoin(temp_dir, items[idx]))
DstPath == Resolve(PathJoin(output_dir, items[idx]))

\* Mutant: the staged entry moved in without the conflicting entry removed
ConflictsNever(f, dst) == FALSE

\* os.path.exists(dst_path): a same-named entry is in the destination
Conflicts(f, dst) == FsExists(f, dst)

\* "Remove destination if it exists": outside the try of the move
Remove ==
    /\ pc = "remove"
    /\ \E o \in StepOutcomes :
        IF o = "KeyboardInterrupt"
        THEN /\ ToFinally(o)
             /\ hist' = Faulted(hist, "remove", o)
             /\ UNCHANGED fs
        ELSE IF ~Conflicts(fs, DstPath)
        THEN /\ o = "ok"
             /\ pc' = "move"
             /\ UNCHANGED <<fs, exc, hist>>
        ELSE IF FsIsDir(fs, DstPath)
        THEN /\ o = "ok"
             /\ fs' \in RmtreeOutcomes(fs, DstPath)
             /\ hist' = [Faulted(hist, "rmtree",
                                 IF fs' = FsRemoveTree(fs, DstPath)
                                 THEN "ok" ELSE "OSError")
                            EXCEPT !.removed = @ \cup {items[idx]}]
             /\ pc' = "move"
             /\ UNCHANGED exc
        ELSE IF o = "ok"
        THEN /\ fs' = FsRemoveTree(fs, DstPath)
             /\ hist' = [hist EXCEPT !.removed = @ \cup {items[idx]}]
             /\ pc' = "move"
             /\ UNCHANGED exc
        ELSE /\ ToFinally(Raised(o))
             /\ hist' = Faulted(hist, "remove", o)
             /\ UNCHANGED fs
    /\ UNCHANGED <<url, coords, output_dir, folder_prefix, target_files, temp_dir,
                   idx, items, result, fs0, other>>
    /\ UNCHANGED dl_vars

\* whether the try around the move catches the exception an outcome raises
MoveCatches(o) == o /= "KeyboardInterrupt"

\* shutil.move(src_path, dst_path) in its try
Move ==
    /\ pc = "move"
    /\ \E o \in StepOutcomes :
        IF MoveCatches(o)
        THEN LET r == IF o = "ok" THEN ShutilMove(fs, SrcPath, DstPath)
                      ELSE [fs |-> fs, ok |-> FALSE] IN
             /\ fs' = r.fs
             /\ hist' = IF r.ok
                        THEN [hist EXCEPT !.moved = @ \cup {items[idx]}]
                        ELSE Faulted(hist, "move", o)
             /\ idx' = idx + 1
             /\ pc' = IF idx = Len(items) THEN "cleanup" ELSE "remove"
             /\ UNCHANGED exc
        ELSE /\ ToFinally(Raised(o))
             /\ hist' = Faulted(hist, "move", o)
             /\ UNCHANGED <<fs, idx>>
    /\ UNCHANGED <<url, coords, output_dir, folder_prefix, target_files, temp_dir,
                   items, result, fs0, other>>
    /\ UNCHANGED dl_vars

\* Mutant: the removal of staging placed after the loops, not in a finally
CleanupOnlyOnSuccess(e) == e = None

\* whether the finally clause runs with exception e pending
CleanupRuns(e) == TRUE

\* what the bare "except:" around the removal of staging catches: every
\* exception, the interrupt of the user included
CleanupCatches(o) == TRUE

\* the finally clause: shutil.rmtree(temp_dir, ignore_errors=True) in its
\* try.  The removal runs to its end (passing over the entries it cannot
\* remove), or the interrupt of the user, if it has not arrived before, ends
\* it where it is and is caught by the bare except.
Cleanup ==
    /\ pc = "cleanup"
    /\ IF ~CleanupRuns(exc)
       THEN /\ fs' = fs
            /\ hist' = [hist EXCEPT !.cleanup = "skipped"]
            /\ UNCHANGED exc
       ELSE IF FsExists(fs, Resolve(temp_dir))
       THEN \/ /\ \E f \in RmtreeOutcomes(fs, Resolve(temp_dir)) :
                    /\ fs' = f
                    /\ hist' = [hist EXCEPT !.cleanup =
                                  IF f = FsRemoveTree(fs, Resolve(temp_dir))
                                  THEN "removed" ELSE "failed"]
               /\ UNCHANGED exc
            \/ /\ hist.interrupt = "none"
               /\ \E f \in RmtreeOutcomes(fs, Resolve(temp_dir)) \cup {fs} :
                    /\ f /= FsRemoveTree(fs, Resolve(temp_dir))
                    /\ fs' = f
               /\ hist' = [hist EXCEPT !.cleanup = "failed", !.interrupt = "cleanup"]
               /\ exc' = IF CleanupCatches("KeyboardInterrupt")
                         THEN exc ELSE "KeyboardInterrupt"
       ELSE /\ fs' = fs
            /\ hist' = [hist EXCEPT !.cleanup = "absent"]
            /\ UNCHANGED exc
    /\ pc' = "mat_exit"
    /\ UNCHANGED <<url, coords, output_dir, result, fs0, other>>
    /\ UNCHANGED dl_vars
    /\ UNCHANGED <<folder_prefix, target_files, temp_dir, idx, items>>

\* extract_to_temp_and_move returns or raises, and download_github_folder
\* returns True, returns False from its except clause, or is left by the
\* interrupt
Return ==
    /\ pc = "mat_exit"
    /\ IF exc = None
       THEN pc' = "done" /\ result' = "True"
       ELSE Leave(exc)
    /\ UNCHANGED <<url, coords, output_dir, fs, fs0, other, hist>>
    /\ UNCHANGED dl_vars
    /\ UNCHANGED mat_vars

Next ==
    \/ Parse
    \/ Get
    \/ Sleep
    \/ PrimaryRaised
    \/ SecondaryRaised
    \/ OpenAndFilter
    \/ MakeTemp
    \/ Extract
    \/ MakeOutput
    \/ Remove
    \/ Move
    \/ Cleanup
    \/ Return

Spec == Init /\ [][Next]_vars

(***************************************************************************)
(* download_with_progress on its own, for every retry count up to          *)
(* MaxRetries and two backoff factors.                                     *)
(***************************************************************************)
Backoffs == {DefaultBackoff, [num |-> 2, den |-> 1]}
Coords_tree == parse_github_folder_url(Url_tree)

InitFetcher ==
    /\ pc = "fetcher"
    /\ url = Url_tree
    /\ coords = Coords_tree
    /\ output_dir = <<>>
    /\ dl_pc = "get"
    /\ dl_url \in {PrimaryUrl(Coords_tree), SecondaryUrl(Coords_tree)}
    /\ retries \in 0..MaxRetries
    /\ backoff_factor \in Backoffs
    /\ current_retry = 0
    /\ dl_exc = None
    /\ content = NotAZip
    /\ log = <<>>
    /\ calls = <<>>
    /\ folder_prefix = <<>>
    /\ target_files = <<>>
    /\ temp_dir = <<>>
    /\ idx = 0
    /\ items = <<>>
    /\ exc = None
    /\ result = None
    /\ fs = FsBare
    /\ fs0 = fs
    /\ other = OtherOff
    /\ hist = Hist0

NextFetcher == Get \/ Sleep

SpecFetcher == InitFetcher /\ [][NextFetcher]_vars

(***************************************************************************)
(* The Archive Filter on its own, for every member list up to MaxMembers   *)
(* names long over FilterPool and two sets of coordinates.                 *)
(***************************************************************************)
MaxMembers == 3
FilterPool == {M_root, M_readme, M_marker, M_a, M_db, M_sibling, M_main_a}
Coords_repo == parse_github_folder_url(Url_repo)

RECURSIVE SeqsUpTo(_, _)
SeqsUpTo(S, n) ==
    IF n = 0 THEN {<<>>}
    ELSE LET shorter == SeqsUpTo(S, n - 1) IN
         shorter \cup {Append(q, x) : q \in {r \in shorter : Len(r) = n - 1}, x \in S}

InitFilter ==
    /\ pc = "fetch1"
    /\ url \in {Url_tree, Url_repo}
    /\ coords = parse_github_folder_url(url)
    /\ output_dir = sanitize_path(DefaultOutput(coords))
    /\ dl_pc = "returned"
    /\ dl_url = PrimaryUrl(coords)
    /\ retries = DefaultRetries
    /\ backoff_factor = DefaultBackoff
    /\ current_retry = 0
    /\ dl_exc = None
    /\ content \in {Zip(a) : a \in SeqsUpTo(FilterPool, MaxMembers)}
    /\ log = <<LogGet(dl_url, "ok", content)>>
    /\ calls = <<CallEnded(dl_url, retries, "returned", None)>>
    /\ folder_prefix = <<>>
    /\ target_files = <<>>
    /\ temp_dir = <<>>
    /\ idx = 0
    /\ items = <<>>
    /\ exc = None
    /\ result = None
    /\ fs = FsBare
    /\ fs0 = fs
    /\ other = OtherOff
    /\ hist = Hist0

NextFilter == OpenAndFilter

SpecFilter == InitFilter /\ [][NextFilter]_vars

(***************************************************************************)
(* The pipeline run twice in sequence against the same destination with    *)
(* the same archive content, from the return of the fetch on.              *)
(***************************************************************************)
\* no operation of the run was refused, interrupted or passed over
Faultless(h) ==
    /\ h.faults = {}
    /\ h.interrupt = "none"
    /\ h.cleanup \in {"removed", "absent"}

\* download_github_folder is called again, with the same url, after a run in
\* which nothing was refused returned True, and its fetch returns the archive
\* content of the first call
Rerun ==
    /\ pc = "done"
    /\ result = "True"
    /\ hist.run = 1
    /\ Faultless(hist)
    /\ pc' = "fetch1"
    /\ dl_pc' = "returned"
    /\ result' = None
    /\ exc' = None
    /\ folder_prefix' = <<>>
    /\ target_files' = <<>>
    /\ temp_dir' = <<>>
    /\ idx' = 0
    /\ items' = <<>>
    /\ fs0' = fs
    /\ UNCHANGED other
    /\ hist' = [Hist0 EXCEPT !.run = 2, !.first = RelTree(fs, Resolve(output_dir))]
    /\ UNCHANGED <<url, coords, output_dir, dl_url, retries, backoff_factor,
                   current_retry, dl_exc, content, log, calls, fs>>

InitTwice ==
    /\ pc = "fetch1"
    /\ url \in {Url_tree, Url_repo}
    /\ coords = parse_github_folder_url(url)
    /\ output_dir = sanitize_path(DefaultOutput(coords))
    /\ dl_pc = "returned"
    /\ dl_url = PrimaryUrl(coords)
    /\ retries = DefaultRetries
    /\ backoff_factor = DefaultBackoff
    /\ current_retry = 0
    /\ dl_exc = None
    /\ content \in {Zip(a) : a \in Archives}
    /\ log = <<>>
    /\ calls = <<CallEnded(dl_url, retries, "returned", None)>>
    /\ folder_prefix = <<>>
    /\ target_files = <<>>
    /\ temp_dir = <<>>
    /\ idx = 0
    /\ items = <<>>
    /\ exc = None
    /\ result = None
    /\ fs \in InitialFilesystems \cup {FsWithDestOfOtherKinds(<<"s">>)}
    /\ fs0 = fs
    /\ other = OtherOff
    /\ hist = Hist0

NextTwice ==
    \/ OpenAndFilter
    \/ MakeTemp
    \/ Extract
    \/ MakeOutput
    \/ Remove
    \/ Move
    \/ Cleanup
    \/ Return
    \/ Rerun

SpecTwice == InitTwice /\ [][NextTwice]_vars

(***************************************************************************)
(* Two invocations of extract_to_temp_and_move at the same time, for two   *)
(* destinations in the same directory.  The steps of the second invocation *)
(* are the filesystem calls of the function, none of them refused.         *)
(***************************************************************************)
\* the arguments of the second invocation: its destination, its prefix and
\* its member
Other_output_dir == <<"t">>
Other_folder_prefix == FolderPrefix(Coords_tree)
Other_target_file == M_c

\* the variables of the first invocation, the filesystem aside
run_vars == <<pc, url, coords, output_dir, dl_pc, dl_url, retries, backoff_factor,
              current_retry, dl_exc, content, log, calls, folder_prefix,
              target_files, temp_dir, idx, items, exc, result, fs0, hist>>

\* os.makedirs(temp_dir, exist_ok=True)
OtherMakeTemp ==
    /\ other.pc = "mk_temp"
    /\ LET mk == makedirs(fs, other.temp_dir) IN
       /\ fs' = mk.fs
       /\ other' = [other EXCEPT !.pc = IF mk.ok THEN "extract" ELSE "cleanup"]
    /\ UNCHANGED run_vars

\* the extraction loop, of one member
OtherExtract ==
    /\ other.pc = "extract"
    /\ fs' = ExtractMember(fs, other.temp_dir, Other_folder_prefix,
                           Other_target_file, "ok").fs
    /\ other' = [other EXCEPT !.pc = "mk_out"]
    /\ UNCHANGED run_vars

\* os.makedirs(output_dir, exist_ok=True) and items = os.listdir(temp_dir)
OtherMakeOutput ==
    /\ other.pc = "mk_out"
    /\ LET mk == makedirs(fs, other.output_dir) IN
       /\ fs' = mk.fs
       /\ IF mk.ok /\ FsIsDir(mk.fs, Resolve(other.temp_dir))
          THEN \E its \in Perms(FsList(mk.fs, Resolve(other.temp_dir))) :
                 other' = [other EXCEPT !.items = its,
                                        !.pc = IF its = <<>> THEN "cleanup"
                                               ELSE "promote"]
          ELSE other' = [other EXCEPT !.pc = "cleanup"]
    /\ UNCHANGED run_vars

\* one iteration of the loop over the staged items: the destination entry of
\* the name is removed and the staged entry moved in
OtherPromote ==
    /\ other.pc = "promote"
    /\ LET src   == Resolve(PathJoin(other.temp_dir, Head(other.items)))
           dst   == Resolve(PathJoin(other.output_dir, Head(other.items)))
           clear == IF Conflicts(fs, dst) THEN FsRemoveTree(fs, dst) ELSE fs
       IN  fs' = ShutilMove(clear, src, dst).fs
    /\ other' = [other EXCEPT !.items = Tail(@),
                              !.pc = IF Tail(other.items) = <<>> THEN "cleanup"
                                     ELSE "promote"]
    /\ UNCHANGED run_vars

\* the finally clause
OtherCleanup ==
    /\ other.pc = "cleanup"
    /\ fs' = IF FsExists(fs, Resolve(other.temp_dir))
             THEN FsRemoveTree(fs, Resolve(other.temp_dir))
             ELSE fs
    /\ other' = [other EXCEPT !.pc = "done"]
    /\ UNCHANGED run_vars

\* the archives of the first invocation
PairArchives == { <<M_marker, M_a>> }

InitPair ==
    /\ pc = "mk_temp"
    /\ url = Url_tree
    /\ coords = Coords_tree
    /\ output_dir = sanitize_path(DefaultOutput(coords))
    /\ dl_pc = "idle"
    /\ dl_url = PrimaryUrl(coords)
    /\ retries = DefaultRetries
    /\ backoff_factor = DefaultBackoff
    /\ current_retry = 0
    /\ dl_exc = None
    /\ content \in {Zip(a) : a \in PairArchives}
    /\ log = <<>>
    /\ calls = <<CallEnded(dl_url, retries, "returned", None)>>
    /\ folder_prefix = FolderPrefix(coords)
    /\ target_files = TargetFiles(content.namelist, folder_prefix)
    /\ \E t \in 1..MaxClock : temp_dir = TempDir(output_dir, t)
    /\ idx = 0
    /\ items = <<>>
    /\ exc = None
    /\ result = None
    /\ fs = FsBare
    /\ fs0 = fs
    /\ \E t \in 1..MaxClock :
         other = [pc |-> "mk_temp", output_dir |-> Other_output_dir,
                  temp_dir |-> TempDir(Other_output_dir, t), items |-> <<>>]
    /\ hist = Hist0

NextPair ==
    \/ MakeTemp
    \/ Extract
    \/ MakeOutput
    \/ Remove
    \/ Move
    \/ Cleanup
    \/ Return
    \/ OtherMakeTemp
    \/ OtherExtract
    \/ OtherMakeOutput
    \/ OtherPromote
    \/ OtherCleanup

SpecPair == InitPair /\ [][NextPair]_vars

(***************************************************************************)
(* parse_github_folder_url on its own, for the locators made of the parts  *)
(* of LocatorParts: a scheme, an owner, a repository, no selector or a     *)
(* selector with a revision and up to MaxSubpath subpath segments, and up  *)
(* to MaxSlashes trailing slashes.                                         *)
(***************************************************************************)
MaxSubpath == 2
MaxSlashes == 1

Schemes == {S_http, S_http \o <<"s">>}
Owners == {<<"o">>, <<"o", "-", "1">>}
Repos == {<<"r">>, <<"r", ".", "x">>}
Selectors == {S_tree, S_blob}
Revisions == {<<"v">>, <<"d", "-", "1">>}
Segments == {<<"s">>, <<"a", ".", "b">>}

LocatorParts ==
    [scheme : Schemes, owner : Owners, repo : Repos, sel : {<<>>},
     rev : {<<>>}, sub : {<<>>}, slashes : 0..MaxSlashes]
    \cup
    [scheme : Schemes, owner : Owners, repo : Repos, sel : Selectors,
     rev : Revisions, sub : SeqsUpTo(Segments, MaxSubpath), slashes : 0..MaxSlashes]

\* n slashes
Slashes(n) == [i \in 1..n |-> "/"]

\* the locator string of the parts
Locator(l) ==
    l.scheme \o S_hostpart \o l.owner \o <<"/">> \o l.repo
      \o (IF l.sel = <<>> THEN <<>>
          ELSE <<"/">> \o l.sel \o <<"/">> \o l.rev
                 \o (IF l.sub = <<>> THEN <<>> ELSE <<"/">> \o Join(l.sub, "/")))
      \o Slashes(l.slashes)

InitParse ==
    /\ pc = "parse"
    /\ url \in {Locator(l) : l \in LocatorParts} \cup Locators
    /\ coords = [ok |-> FALSE]
    /\ output_dir = <<>>
    /\ dl_pc = "idle"
    /\ dl_url = <<>>
    /\ retries = DefaultRetries
    /\ backoff_factor = DefaultBackoff
    /\ current_retry = 0
    /\ dl_exc = None
    /\ content = NotAZip
    /\ log = <<>>
    /\ calls = <<>>
    /\ folder_prefix = <<>>
    /\ target_files = <<>>
    /\ temp_dir = <<>>
    /\ idx = 0
    /\ items = <<>>
    /\ exc = None
    /\ result = None
    /\ fs = FsBare
    /\ fs0 = fs
    /\ other = OtherOff
    /\ hist = Hist0

NextParse == Parse

SpecParse == InitParse /\ [][NextParse]_vars

(***************************************************************************)
(* Properties.                                                             *)
(***************************************************************************)
TempPath == Resolve(temp_dir)
DestPath == Resolve(output_dir)

\* extract_to_temp_and_move was entered
Entered == temp_dir /= <<>>
\* extract_to_temp_and_move was entered and has been left
Exited == Entered /\ pc \in {"mat_exit", "done"}

\* the names of the entries the destination held when the run started
PreExisting == FsList(fs0, DestPath)

\* C1 (as claimed): after a run of extract_to_temp_and_move, whatever step
\* failed or was interrupted, every entry the destination held before the run
\* has its original content or has been replaced by the staged entry of the
\* same name.
C1_DestinationNeverCorrupted ==
    Exited =>
        \A n \in PreExisting :
            \/ RelTree(fs, Append(DestPath, n)) = RelTree(fs0, Append(DestPath, n))
            \/ \E st \in hist.staged :
                 st[1] = n /\ RelTree(fs, Append(DestPath, n)) = st[2]

\* C2 (as claimed): once extract_to_temp_and_move has returned or raised, the
\* staging directory does not exist.
C2_StagingAbsentAfterExit ==
    Exited => ~FsExists(fs, TempPath)

\* C2 (amended): on every exit path of extract_to_temp_and_move the finally
\* clause has run, and the staging directory does not exist afterwards unless
\* the recursive removal itself failed (its errors are passed over).
C2_StagingRemovedUnlessRemovalFails ==
    Exited =>
        /\ hist.cleanup \in {"removed", "failed", "absent"}
        /\ hist.cleanup /= "failed" => ~FsExists(fs, TempPath)

\* C2 witness: a run that an exception ended, after whose removal of staging
\* the staging directory is gone.
C2_Witness ==
    /\ pc = "done"
    /\ result = "False"
    /\ hist.cleanup = "removed"
    /\ hist.extracted /= {}
    /\ ~FsExists(fs, TempPath)

\* what extraction has changed: the paths created or rewritten since the run
\* started
Touched == {p \in DOMAIN fs : p \notin DOMAIN fs0 \/ fs[p] /= fs0[p]}

\* C3 (as claimed): every file or directory created during extraction lies
\* inside the staging root.
C3_ExtractionStaysInStaging ==
    pc \in {"extract", "mk_out"} => \A p \in Touched : IsPrefix(TempPath, p)

(***************************************************************************)
(* The Fetcher (SpecFetcher).                                              *)
(***************************************************************************)
IsGet(e) == e.ev = "get"
IsSleep(e) == e.ev = "sleep"
IsFailedGet(e) == e.ev = "get" /\ e.outcome = "RequestException"
Gets == SelectSeq(log, IsGet)
Sleeps == SelectSeq(log, IsSleep)
FailedGets == SelectSeq(log, IsFailedGet)

\* C4: when download_with_progress returns after N failed GETs, N is at most
\* retries, the call made exactly N+1 GETs and N sleeps, the k-th sleep
\* lasting backoff_factor^k and lying between GET k and GET k+1, and what it
\* returns is the payload of GET N+1.
C4_RetryThenSuccess ==
    dl_pc = "returned" =>
        LET N == Len(FailedGets) IN
        /\ N <= retries
        /\ Len(log) = 2 * N + 1
        /\ Len(Gets) = N + 1
        /\ Len(Sleeps) = N
        /\ \A k \in 1..N :
             /\ IsFailedGet(log[2 * k - 1])
             /\ IsSleep(log[2 * k])
             /\ log[2 * k].wait = [num |-> backoff_factor.num ^ k,
                                   den |-> backoff_factor.den ^ k]
        /\ IsGet(log[2 * N + 1])
        /\ log[2 * N + 1].outcome = "ok"
        /\ content = log[2 * N + 1].payload

\* C4 witness: a call that returns a zip archive on its last permitted GET,
\* after retries failures and as many sleeps.
C4_Witness ==
    /\ dl_pc = "returned"
    /\ retries = MaxRetries
    /\ Len(FailedGets) = retries
    /\ Len(Sleeps) = retries
    /\ content.zip

\* C5: a call never makes more than retries+1 GETs and returns only what a
\* successful GET delivered; when every GET fails with a failure of the
\* request, it raises after exactly retries+1 GETs and retries sleeps, with
\* no sleep after the last GET, and what it raises is that failure.
C5_ExhaustedRetries ==
    /\ Len(Gets) <= retries + 1
    /\ dl_pc = "returned" =>
         /\ log[Len(log)].outcome = "ok"
         /\ content = log[Len(log)].payload
    /\ (dl_pc = "raised" /\ dl_exc = "RequestException") =>
         /\ Len(Gets) = retries + 1
         /\ Len(FailedGets) = retries + 1
         /\ Len(Sleeps) = retries
         /\ IsFailedGet(log[Len(log)])
    /\ (dl_pc = "raised" /\ Len(FailedGets) = Len(Gets) /\ dl_exc /= "KeyboardInterrupt") =>
         /\ dl_exc = "RequestException"
         /\ Len(Gets) = retries + 1

\* C5 witness: a call whose GETs all failed and that raised after
\* MaxRetries+1 of them.
C5_Witness ==
    /\ dl_pc = "raised"
    /\ dl_exc = "RequestException"
    /\ retries = MaxRetries
    /\ Len(FailedGets) = retries + 1
    /\ Len(Sleeps) = retries

(***************************************************************************)
(* The Orchestrator (Spec).                                                *)
(***************************************************************************)
\* the secondary call has been made
SecondaryCalled == pc = "fetch2" \/ Len(calls) = 2

\* the calls so far: at most one on the primary URL and then at most one on
\* the secondary URL, the secondary with the retry count of the primary, and
\* the run fails when the secondary raises
C6_Calls ==
    /\ Len(calls) <= 2
    /\ (parse_github_folder_url(url).ok /\ pc /= "parse") =>
          (pc = "fetch1" /\ dl_url = PrimaryUrl(coords)) \/ Len(calls) >= 1
    /\ Len(calls) >= 1 => calls[1].url = PrimaryUrl(coords)
    /\ pc = "fetch1" => Len(calls) = (IF dl_pc \in {"returned", "raised"} THEN 1 ELSE 0)
    /\ pc = "fetch2" =>
          /\ dl_url = SecondaryUrl(coords)
          /\ retries = calls[1].retries
          /\ Len(calls) = (IF dl_pc \in {"returned", "raised"} THEN 2 ELSE 1)
    /\ Len(calls) = 2 =>
          /\ calls[2].url = SecondaryUrl(coords)
          /\ calls[2].retries = calls[1].retries
          /\ calls[1].how = "raised"
    /\ (pc = "done" /\ Len(calls) = 2 /\ calls[2].how = "raised") =>
          result /= "True" /\ ~Entered

\* C6 (as claimed): the secondary call is made if and only if the primary call
\* raised after its retries were used up.
C6_SecondaryOnlyAfterExhaustion ==
    /\ C6_Calls
    /\ pc \notin {"parse", "fetch1"} =>
         (SecondaryCalled <=>
            (calls /= <<>> /\ calls[1].how = "raised"
               /\ calls[1].exc = "RequestException"))

\* C6 (amended): the primary URL is fetched once; the secondary URL is fetched
\* once if and only if the primary call raised an exception "except Exception"
\* catches, which is a failure of the request after its retries were used up
\* or an exception of another class on any GET (never after a primary success
\* or the interrupt of the user); the secondary call has the retry count of
\* the primary, and the run fails when it raises too.
C6_SecondaryAfterAnyException ==
    /\ C6_Calls
    /\ pc \notin {"parse", "fetch1"} =>
         (SecondaryCalled <=>
            (calls /= <<>> /\ calls[1].how = "raised"
               /\ calls[1].exc \in {"RequestException", "Exception"}))

\* C6 witness: a run whose primary call raised an exception of another class
\* than a failure of the request, and whose secondary call returned.
C6_Witness ==
    /\ Len(calls) = 2
    /\ calls[1].exc = "Exception"
    /\ calls[2].how = "returned"
    /\ pc = "done"
    /\ result = "True"

\* why a run fails before extract_to_temp_and_move is entered
InvalidLocator == ~parse_github_folder_url(url).ok
BothFetchesFailed ==
    /\ Len(calls) = 2
    /\ calls[1].how = "raised" /\ calls[1].exc = "RequestException"
    /\ calls[2].how = "raised" /\ calls[2].exc = "RequestException"
EmptySelection ==
    /\ calls /= <<>>
    /\ calls[Len(calls)].how = "returned"
    /\ content.zip
    /\ \A i \in 1..Len(content.namelist) :
         ~(StartsWith(content.namelist[i].name, FolderPrefix(coords))
             /\ content.namelist[i].name /= FolderPrefix(coords))

\* the name of a staging directory
IsStagingName(n) == StartsWith(n, S_temp_extract)

\* C7: a run with an invalid locator, with both fetches failed beyond their
\* retries, or with an empty selection never enters extract_to_temp_and_move
\* and returns False; and as long as extract_to_temp_and_move is not entered
\* the filesystem is as it was: no staging directory, and the destination
\* neither created nor changed.
C7_FailureBeforeMaterialization ==
    /\ (pc = "done" /\ (InvalidLocator \/ BothFetchesFailed \/ EmptySelection)) =>
          /\ result = "False"
          /\ ~Entered
    /\ ~Entered =>
          /\ fs = fs0
          /\ \A p \in DOMAIN fs : p /= <<>> => ~IsStagingName(p[Len(p)])

\* C7 witness: both fetches failed beyond their retries, with a destination
\* that exists; and the run is over.
C7_Witness ==
    /\ pc = "done"
    /\ BothFetchesFailed
    /\ result = "False"
    /\ FsExists(fs, DestPath)
    /\ fs = fs0

\* C8 (as claimed): after a run of extract_to_temp_and_move, every entry the
\* destination held before it whose name is not the name of a top-level entry
\* of staging is present and unchanged.
C8_UnrelatedEntriesPreserved ==
    Exited =>
        \A n \in PreExisting :
            n \notin {st[1] : st \in hist.staged} =>
                RelTree(fs, Append(DestPath, n)) = RelTree(fs0, Append(DestPath, n))

\* the path string of member i of target_files relative to folder_prefix
RelPath(i) == sanitize_path(DropFirst(target_files[i].name, Len(folder_prefix)))
\* the top-level entry of staging member i belongs to
TopItem(i) == Split(RelPath(i), "/")[1]
\* member i is in the destination, at its relative path, with its bytes
Present(i) ==
    LET p == Resolve(PathJoin(output_dir, RelPath(i))) IN
    /\ FsExists(fs, p)
    /\ fs[p].kind = "file"
    /\ fs[p].data = target_files[i].data

\* C9 (as claimed): when download_github_folder returns True, every selected
\* member whose extraction and whose move did not fail is in the destination
\* at its relative path, and at least one selected member is in the
\* destination.
C9_SuccessMeansSubtreePresent ==
    (pc = "done" /\ result = "True") =>
        /\ \A i \in 1..Len(target_files) :
             (i \in hist.extracted /\ TopItem(i) \in hist.moved) => Present(i)
        /\ \E i \in 1..Len(target_files) : Present(i)

(***************************************************************************)
(* The Archive Filter (SpecFilter).                                        *)
(***************************************************************************)
\* "{repo}-{revision}/{subpath}/", or "{repo}-{revision}/" with no subpath
ClaimedPrefix ==
    IF coords.folder_path = <<>>
    THEN coords.repo \o <<"-">> \o coords.branch \o <<"/">>
    ELSE coords.repo \o <<"-">> \o coords.branch \o <<"/">> \o coords.folder_path \o <<"/">>

\* the positions in the archive of the members under the claimed prefix
UnderPrefix ==
    {i \in 1..Len(content.namelist) :
        LET n == content.namelist[i].name IN
        /\ Len(n) > Len(ClaimedPrefix)
        /\ \A j \in 1..Len(ClaimedPrefix) : n[j] = ClaimedPrefix[j]}

\* the k-th smallest element of a set of numbers
Kth(S, k) == CHOOSE i \in S : Cardinality({j \in S : j < i}) = k - 1

\* C10: target_files is the list of the archive members whose name starts
\* with the prefix and is not the prefix, in the order of the archive.
C10_FilterSelectsSubtree ==
    (pc /= "fetch1" /\ content.zip) =>
        /\ folder_prefix = ClaimedPrefix
        /\ Len(target_files) = Cardinality(UnderPrefix)
        /\ \A k \in 1..Len(target_files) :
             target_files[k] = content.namelist[Kth(UnderPrefix, k)]

\* C10 witness: an archive with a member of a sibling directory whose name
\* begins with the subpath, from which two members are selected in an order
\* that is not the alphabetical one.
C10_Witness ==
    /\ pc = "mk_temp"
    /\ content.namelist = <<M_db, M_sibling, M_a>>
    /\ target_files = <<M_db, M_a>>

(***************************************************************************)
(* The whole run (Spec).                                                   *)
(***************************************************************************)
\* member i of target_files is a file member: its name does not end in "/"
IsFileMember(i) ==
    LET n == target_files[i].name IN n /= <<>> /\ n[Len(n)] /= "/"

\* member i is in the destination: a file below the destination directory, at
\* the member's path relative to the prefix, holding the member's bytes
InDestination(i) ==
    LET p == Resolve(PathJoin(output_dir, RelPath(i))) IN
    /\ IsPrefix(DestPath, p)
    /\ p /= DestPath
    /\ FsExists(fs, p)
    /\ fs[p].kind = "file"
    /\ fs[p].data = target_files[i].data

\* the bytes of the archive members the filter did not select
UnselectedData ==
    {content.namelist[j].data : j \in {k \in 1..Len(content.namelist) :
        ~Selected(content.namelist[k].name, folder_prefix)}} \ {""}

\* no member extraction and no item move of the run failed
NothingFailed ==
    /\ hist.extracted = 1..Len(target_files)
    /\ hist.moved = {st[1] : st \in hist.staged}

\* C11 (as claimed): when download_github_folder has returned after a run in
\* which no member extraction and no item move failed, every selected file
\* member is in the destination at its path relative to the prefix with its
\* bytes, and no file of the destination holds the bytes of a member outside
\* the prefix.
C11_EndToEnd ==
    (pc = "done" /\ result = "True" /\ NothingFailed) =>
        /\ \A i \in 1..Len(target_files) : IsFileMember(i) => InDestination(i)
        /\ \A p \in Subtree(fs, DestPath) :
             fs[p].kind = "file" => fs[p].data \notin UnselectedData

\* member i was written in full and its file is where it was extracted to
Staged(i) ==
    LET p == Resolve(TargetFilePath(temp_dir, folder_prefix, target_files[i])) IN
    /\ FsExists(fs, p)
    /\ fs[p].kind = "file"
    /\ fs[p].data = target_files[i].data

\* one step of the extraction loop: the next member is taken or the loop is
\* over and promotion begins, with no exception pending; only the interrupt
\* of the user leaves the loop
ExtractStep ==
    pc = "extract" =>
        \/ /\ pc' = (IF idx = Len(target_files) THEN "mk_out" ELSE "extract")
           /\ idx' = idx + 1
           /\ exc' = None
           /\ hist.extracted \subseteq hist'.extracted
        \/ /\ pc' = "cleanup"
           /\ exc' = "KeyboardInterrupt"

\* C13: a member whose extraction fails is passed over. The extraction loop
\* goes on to the next member with no exception pending whatever failed
\* before; when it ends, every member whose extraction did not fail is in
\* staging with its bytes and promotion begins; and a run in which nothing
\* but member extractions failed returns True.
C13_ExtractionFailureNonFatal ==
    /\ [][ExtractStep]_vars
    /\ [](pc = "extract" => exc = None /\ idx \in 1..Len(target_files))
    /\ [](pc = "mk_out" =>
            /\ idx = Len(target_files) + 1
            /\ \A i \in hist.extracted : Staged(i))
    /\ []((pc = "done" /\ Entered /\ hist.faults \subseteq {"extract"}
              /\ hist.interrupt = "none") =>
            result = "True")

\* C13 witness: a run that returned True in which the extraction of a member
\* was refused and another member was extracted and moved to the destination.
C13_Witness ==
    /\ pc = "done"
    /\ result = "True"
    /\ hist.faults = {"extract"}
    /\ hist.extracted /= {}
    /\ hist.extracted /= 1..Len(target_files)
    /\ hist.moved /= {}
    /\ \E i \in hist.extracted : InDestination(i)

\* the failures of the promotion of an item: the removal of the conflicting
\* destination entry refused (a file) or passed over (a directory), and the
\* move refused
PromotionFaults == {"remove", "rmtree", "move"}

\* C14 (as claimed): when extract_to_temp_and_move is left after a run in
\* which nothing failed but the promotion of items, no exception is pending,
\* every staged item has been processed, and download_github_folder does not
\* return False.
C14_PromotionFailureNonFatal ==
    (Exited /\ hist.faults /= {} /\ hist.faults \subseteq PromotionFaults
        /\ hist.interrupt = "none") =>
        /\ exc = None
        /\ idx = Len(items) + 1
        /\ pc = "done" => result = "True"

\* the exception that ended the run before extract_to_temp_and_move was
\* entered, None if there is none: the ValueError of the parser, what the last
\* call of download_with_progress raised, BadZipFile, or the empty selection
EarlyException(cl, dp, ct, tf) ==
    IF InvalidLocator THEN "Exception"
    ELSE IF cl /= <<>> /\ cl[Len(cl)].how = "raised"
              /\ (Len(cl) = 2 \/ ~FallbackCatches(cl[1].exc))
         THEN cl[Len(cl)].exc
    ELSE IF cl /= <<>> /\ cl[Len(cl)].how = "returned" /\ dp = "idle"
              /\ (~ct.zip \/ tf = <<>>)
         THEN "Exception"
    ELSE None

\* the exception that has ended the run, None if there is none
Ending(td, ex, cl, dp, ct, tf) ==
    IF td /= <<>> THEN ex ELSE EarlyException(cl, dp, ct, tf)

\* The state of the Orchestrator: Parsing, Fetching (the primary and the
\* secondary call), Extracting (the members are extracted into staging),
\* Materializing (the staged items are promoted), then Done when the
\* promotion is over with no exception pending and Failed when a component
\* raised an exception; a run the interrupt of the user ended is Aborted
PhaseAt(p, en) ==
    IF en = "KeyboardInterrupt" THEN "Aborted"
    ELSE IF en /= None THEN "Failed"
    ELSE CASE p = "parse" -> "Parsing"
           [] p \in {"fetch1", "fetch2"} -> "Fetching"
           [] p \in {"mk_temp", "extract"} -> "Extracting"
           [] p \in {"mk_out", "remove", "move"} -> "Materializing"
           [] OTHER -> "Done"

\* the state of the Orchestrator now, and after the step
Phase == PhaseAt(pc, Ending(temp_dir, exc, calls, dl_pc, content, target_files))
PhaseAfter == PhaseAt(pc', Ending(temp_dir', exc', calls', dl_pc', content', target_files'))

Terminal == {"Done", "Failed", "Aborted"}

\* the successor of a state in the order of the state machine
NextPhase(a) ==
    CASE a = "Parsing" -> "Fetching"
      [] a = "Fetching" -> "Extracting"
      [] a = "Extracting" -> "Materializing"
      [] a = "Materializing" -> "Done"
      [] OTHER -> a

\* what is outside the staging directory
OutsideStaging(f) == Restrict(f, {p \in DOMAIN f : ~IsPrefix(TempPath, p)})

\* one step of the Orchestrator: the state stays, moves to its successor, or
\* moves from a state that is not terminal to Failed (to Aborted on the
\* interrupt of the user); from a terminal state on, no call of
\* download_with_progress is made or continued, no member is extracted, no
\* item is promoted, and the filesystem changes at most inside staging (its
\* cleanup)
PhaseStep ==
    /\ \/ PhaseAfter = Phase
       \/ Phase \notin Terminal /\ PhaseAfter \in {NextPhase(Phase), "Failed", "Aborted"}
    /\ (Phase \in Terminal) =>
          /\ calls' = calls
          /\ log' = log
          /\ hist'.extracted = hist.extracted
          /\ hist'.moved = hist.moved
          /\ hist'.removed = hist.removed
          /\ fs' /= fs => pc = "cleanup" /\ OutsideStaging(fs') = OutsideStaging(fs)

\* C15: the Orchestrator moves Parsing -> Fetching -> Extracting ->
\* Materializing -> Done, with no state skipped or gone back to, or from a
\* state that is not terminal to Failed when a component raises; after Done
\* and Failed nothing follows but the cleanup of staging; and
\* download_github_folder returns True exactly when it ends in Done and False
\* exactly when it ends in Failed (a run the user interrupts returns nothing).
C15_StateMachine ==
    /\ [][PhaseStep]_vars
    /\ [](result = "True" <=> (pc = "done" /\ Phase = "Done"))
    /\ [](result = "False" <=> (pc = "done" /\ Phase = "Failed"))
    /\ [](pc = "done" => result \in {"True", "False", "KeyboardInterrupt"})

\* C15 witness: a run that failed in Materializing, when the destination
\* directory could not be made, after members were extracted, and returned
\* False once staging was removed.
C15_Witness ==
    /\ pc = "done"
    /\ result = "False"
    /\ Phase = "Failed"
    /\ hist.faults = {"mk_out"}
    /\ hist.extracted /= {}
    /\ hist.cleanup = "removed"

\* C16 (as claimed): once the interrupt of the user has arrived in
\* extract_to_temp_and_move, no further member is extracted and no further
\* item is moved (control is in the finally clause or beyond it); when
\* extract_to_temp_and_move is left the cleanup of staging has run and the
\* interrupt is the exception pending; and download_github_folder is left by
\* the interrupt, not by a return.
C16_InterruptPropagates ==
    hist.interrupt /= "none" =>
        /\ pc \in {"cleanup", "mat_exit", "done"}
        /\ pc \in {"mat_exit", "done"} =>
              /\ hist.cleanup \in {"removed", "failed", "absent"}
              /\ exc = "KeyboardInterrupt"
        /\ pc = "done" => result = "KeyboardInterrupt"

\* an exception was raised in the extraction phase: while staging was
\* created or in the extraction loop
RaisedInExtraction ==
    \/ hist.interrupt \in {"mk_temp", "extract"}
    \/ "mk_temp" \in hist.faults

\* C19 (as claimed): until every selected member has been processed the
\* destination is as it was before the run (not created, nothing in it
\* removed or written), and it is still so when extract_to_temp_and_move has
\* been left by an exception raised in the extraction phase.
C19_PromotionFollowsExtraction ==
    /\ pc \in {"mk_temp", "extract", "mk_out"} =>
          RelTree(fs, DestPath) = RelTree(fs0, DestPath)
    /\ (Exited /\ RaisedInExtraction) =>
          RelTree(fs, DestPath) = RelTree(fs0, DestPath)

\* member i of target_files is a directory marker: its name ends in "/"
IsMarker(i) ==
    LET n == target_files[i].name IN n /= <<>> /\ n[Len(n)] = "/"

\* member i has been processed by the extraction loop
Processed(i) == pc \notin {"mk_temp", "extract"} \/ (pc = "extract" /\ i < idx)

\* marker j is listed before member i and is a directory above it
MarkerAbove(j, i) ==
    /\ j < i
    /\ IsMarker(j)
    /\ StartsWith(target_files[i].name, target_files[j].name)

\* C20 (as claimed): a selected directory marker is never a regular file in
\* staging; and after a run in which no operation was refused or interrupted,
\* every file member listed after a directory marker above it is in the
\* destination.
C20_MarkerIsDirectory ==
    /\ pc \in {"extract", "mk_out"} =>
          \A i \in 1..Len(target_files) :
             (IsMarker(i) /\ Processed(i)) =>
                LET p == Resolve(TargetFilePath(temp_dir, folder_prefix, target_files[i]))
                IN  FsExists(fs, p) => fs[p].kind = "dir"
    /\ (pc = "done" /\ Entered /\ Faultless(hist)) =>
          \A i \in 1..Len(target_files) :
             (IsFileMember(i) /\ \E j \in 1..Len(target_files) : MarkerAbove(j, i))
                => InDestination(i)

(***************************************************************************)
(* Two runs in sequence (SpecTwice).                                       *)
(***************************************************************************)
\* C12: when the pipeline has run a second time against the same destination
\* with the same archive content, neither run meeting a refused or
\* interrupted operation, the destination is in the state the first run left
\* it in: every entry of the first run is overwritten in place, with no
\* duplicated and no nested copy.
C12_Idempotent ==
    (hist.run = 2 /\ pc = "done" /\ result = "True" /\ Faultless(hist)) =>
        RelTree(fs, DestPath) = hist.first

\* C12 witness: a second run over a destination that held other content
\* before the first run, which has replaced a file and a directory the first
\* run put there.
C12_Witness ==
    /\ hist.run = 2
    /\ pc = "done"
    /\ result = "True"
    /\ Faultless(hist)
    /\ {<<"a">>, <<"d">>} \subseteq hist.removed
    /\ hist.moved = {<<"a">>, <<"d">>}
    /\ RelTree(fs, DestPath) = hist.first
    /\ RelTree(fs, DestPath) /= RelTree(FsWithDest(<<"s">>), DestPath)

(***************************************************************************)
(* Two invocations at the same time (SpecPair).                            *)
(***************************************************************************)
\* the staging directory and the destination of the second invocation
OtherTempPath == Resolve(other.temp_dir)
OtherDestPath == Resolve(other.output_dir)

\* the bytes of the members of the first invocation, and of the second
OwnData == {target_files[i].data : i \in 1..Len(target_files)}
OtherData == {Other_target_file.data}

\* the bytes of the files under p
DataUnder(p) == {fs[q].data : q \in {r \in Subtree(fs, p) : fs[r].kind = "file"}}

\* C17 (as claimed): two invocations whose destinations are in the same
\* directory never use the same staging path; neither has files of the other
\* moved into its destination; and the staging directory of each stays from
\* its creation to its own cleanup.
C17_StagingExclusive ==
    other.pc /= "off" =>
        /\ TempPath /= OtherTempPath
        /\ DataUnder(DestPath) \cap OtherData = {}
        /\ DataUnder(OtherDestPath) \cap OwnData = {}
        /\ (pc \in {"extract", "mk_out", "remove", "move"} /\ hist.faults = {})
              => FsExists(fs, TempPath)
        /\ other.pc \in {"extract", "mk_out", "promote"} => FsExists(fs, OtherTempPath)

(***************************************************************************)
(* The parser (SpecParse).                                                 *)
(***************************************************************************)
\* C18: a locator scheme://host/owner/repo parses to its owner and repository
\* with revision "main" and an empty subpath; a locator with a selector
\* ("tree" or "blob"), a revision and subpath segments parses to its owner
\* and repository, the fourth segment as revision and the remaining segments
\* joined by slashes as subpath; and the locator with a slash appended parses
\* to the same coordinates.
C18_ParseCoordinates ==
    pc /= "parse" =>
        /\ \A l \in LocatorParts :
             url = Locator(l) =>
                /\ coords.ok
                /\ coords.owner = l.owner
                /\ coords.repo = l.repo
                /\ coords.branch = (IF l.sel = <<>> THEN S_main ELSE l.rev)
                /\ coords.folder_path = Join(l.sub, "/")
        /\ parse_github_folder_url(url \o <<"/">>) = parse_github_folder_url(url)
        /\ parse_github_folder_url(url) = IF coords.ok THEN coords ELSE [ok |-> FALSE]

\* C18 witness: a locator with the selector "blob", a revision, two subpath
\* segments and a trailing slash has been parsed.
C18_Witness ==
    /\ pc = "fetch1"
    /\ url = Locator([scheme |-> S_http, owner |-> <<"o", "-", "1">>,
                      repo |-> <<"r", ".", "x">>, sel |-> S_blob,
                      rev |-> <<"d", "-", "1">>,
                      sub |-> << <<"s">>, <<"a", ".", "b">> >>, slashes |-> 1])
    /\ coords.branch = <<"d", "-", "1">>
    /\ coords.folder_path = <<"s", "/", "a", ".", "b">>

====
